---- MODULE Spec2Model ----
(***************************************************************************)
(* Model of ratatoskr/app/calendarutil.py: the adapter that mirrors        *)
(* schedules and timeslots of the application into a Google Calendar.      *)
(*                                                                         *)
(* The calendar provider is the environment.  It is modelled as a store    *)
(* of calendars and of events keyed by (calendar id, event id) that        *)
(* answers every request either truthfully (success, 404/410 for an        *)
(* absent target, 409 for an insert under an id already in use) or with    *)
(* an error status that leaves the store unchanged.                        *)
(***************************************************************************)
EXTENDS Integers, Sequences, FiniteSets, TLC

(***************************************************************************)
(* Bounds of the model.                                                    *)
(***************************************************************************)
MaxRes == 2
MaxCreates == 1

\* the ids a schedule may have
ScheduleIds == {1, 2}
\* the ids of the two timeslots of the schedule
Timeslots == {1, 2}
Reservations == 1..MaxRes
Procs == {1, 2}

(***************************************************************************)
(* SHA-1 over byte sequences.  A 32-bit word is a pair <<hi, lo>> of       *)
(* 16-bit halves, so that no intermediate value leaves the integer range.  *)
(***************************************************************************)
RECURSIVE Pow2(_)
Pow2(n) == IF n = 0 THEN 1 ELSE 2 * Pow2(n - 1)

Half == 65536

RECURSIVE BitXor(_, _)
BitXor(a, b) ==
    IF a = 0 THEN b
    ELSE IF b = 0 THEN a
    ELSE ((a + b) % 2) + 2 * BitXor(a \div 2, b \div 2)

RECURSIVE BitAnd(_, _)
BitAnd(a, b) ==
    IF a = 0 \/ b = 0 THEN 0
    ELSE ((a % 2) * (b % 2)) + 2 * BitAnd(a \div 2, b \div 2)

WXor(x, y) == <<BitXor(x[1], y[1]), BitXor(x[2], y[2])>>
WAnd(x, y) == <<BitAnd(x[1], y[1]), BitAnd(x[2], y[2])>>
WOr(x, y) == <<x[1] + y[1] - BitAnd(x[1], y[1]), x[2] + y[2] - BitAnd(x[2], y[2])>>
WNot(x) == <<Half - 1 - x[1], Half - 1 - x[2]>>

WAdd(x, y) ==
    LET lo == x[2] + y[2]
    IN  <<(x[1] + y[1] + (lo \div Half)) % Half, lo % Half>>

\* rotate left by n, 0 < n < 16
RotlSmall(x, n) ==
    <<((x[1] * Pow2(n)) % Half) + (x[2] \div Pow2(16 - n)),
      ((x[2] * Pow2(n)) % Half) + (x[1] \div Pow2(16 - n))>>

Rotl(x, n) ==
    IF n = 0 THEN x
    ELSE IF n < 16 THEN RotlSmall(x, n)
    ELSE IF n = 16 THEN <<x[2], x[1]>>
    ELSE RotlSmall(<<x[2], x[1]>>, n - 16)

RECURSIVE Zeros(_)
Zeros(n) == IF n = 0 THEN <<>> ELSE <<0>> \o Zeros(n - 1)

\* the message, the 0x80 marker, zero fill to 56 mod 64, the bit length on 8 bytes
Sha1Pad(msg) ==
    LET n == Len(msg)
        fill == (119 - n) % 64
        bits == n * 8
    IN  msg \o <<128>> \o Zeros(fill) \o Zeros(4)
            \o <<(bits \div 16777216) % 256, (bits \div 65536) % 256,
                 (bits \div 256) % 256, bits % 256>>

BlockWords(bytes, blk) ==
    [i \in 1..16 |->
        LET o == (blk * 64) + ((i - 1) * 4)
        IN  <<(bytes[o + 1] * 256) + bytes[o + 2], (bytes[o + 3] * 256) + bytes[o + 4]>>]

RECURSIVE Sha1Schedule(_)
Sha1Schedule(w) ==
    IF Len(w) = 80 THEN w
    ELSE LET t == Len(w) + 1
             v == Rotl(WXor(WXor(w[t - 3], w[t - 8]), WXor(w[t - 14], w[t - 16])), 1)
         IN  Sha1Schedule(Append(w, v))

Sha1F(t, b, c, d) ==
    IF t < 20 THEN WOr(WAnd(b, c), WAnd(WNot(b), d))
    ELSE IF t < 40 THEN WXor(WXor(b, c), d)
    ELSE IF t < 60 THEN WOr(WOr(WAnd(b, c), WAnd(b, d)), WAnd(c, d))
    ELSE WXor(WXor(b, c), d)

Sha1K(t) ==
    IF t < 20 THEN <<23170, 31129>>
    ELSE IF t < 40 THEN <<28377, 60321>>
    ELSE IF t < 60 THEN <<36635, 48348>>
    ELSE <<51810, 49622>>

RECURSIVE Sha1Rounds(_, _, _)
Sha1Rounds(w, t, s) ==
    \* Len(s) is evaluated first so that the state of round t is a value
    \* before round t + 1 starts
    IF Len(s) # 5 \/ t = 80 THEN s
    ELSE LET tmp == WAdd(WAdd(WAdd(Rotl(s[1], 5), Sha1F(t, s[2], s[3], s[4])),
                              WAdd(s[5], Sha1K(t))), w[t + 1])
         IN  Sha1Rounds(w, t + 1, <<tmp, s[1], Rotl(s[2], 30), s[3], s[4]>>)

Sha1Block(h, bytes, blk) ==
    LET w == Sha1Schedule(BlockWords(bytes, blk))
        s == Sha1Rounds(w, 0, h)
    IN  [i \in 1..5 |-> WAdd(h[i], s[i])]

RECURSIVE Sha1Blocks(_, _, _)
Sha1Blocks(h, bytes, blk) ==
    IF Len(h) # 5 \/ blk * 64 >= Len(bytes) THEN h
    ELSE Sha1Blocks(Sha1Block(h, bytes, blk), bytes, blk + 1)

Sha1Init == <<<<26437, 8961>>, <<61389, 43913>>, <<39098, 56574>>,
              <<4146, 21622>>, <<50130, 57840>>>>

HexDigit(d) ==
    <<"0", "1", "2", "3", "4", "5", "6", "7", "8", "9", "a", "b", "c", "d", "e", "f">>[d + 1]

Hex16(v) ==
    HexDigit(v \div 4096) \o HexDigit((v \div 256) % 16)
        \o HexDigit((v \div 16) % 16) \o HexDigit(v % 16)

HexWord(x) == Hex16(x[1]) \o Hex16(x[2])

\* hashlib.sha1(bytes).hexdigest()
Sha1Hex(bytes) ==
    LET h == Sha1Blocks(Sha1Init, Sha1Pad(bytes), 0)
    IN  HexWord(h[1]) \o HexWord(h[2]) \o HexWord(h[3]) \o HexWord(h[4]) \o HexWord(h[5])

(***************************************************************************)
(* The derived event identifier.  Strings are sequences of ASCII codes     *)
(* until they are hashed.                                                  *)
(***************************************************************************)
\* "ratatoskr.techhigh.us"
CALENDAR_ID_SUFFIX ==
    <<114, 97, 116, 97, 116, 111, 115, 107, 114, 46,
      116, 101, 99, 104, 104, 105, 103, 104, 46, 117, 115>>

\* "%s" applied to a non-negative integer: its decimal digits
RECURSIVE FormatInt(_)
FormatInt(n) ==
    IF n < 10 THEN <<48 + n>> ELSE FormatInt(n \div 10) \o <<48 + (n % 10)>>

\* mutant: the schedule id is formatted in the place of the timeslot id
CALENDAR_TIMESLOT_EVENT_ID_schedule_twice(timeslot_id, schedule_id) ==
    FormatInt(schedule_id) \o <<64>> \o FormatInt(schedule_id) \o <<35>> \o CALENDAR_ID_SUFFIX

\* "%(timeslot_id)s@%(schedule_id)s#" + CALENDAR_ID_SUFFIX
CALENDAR_TIMESLOT_EVENT_ID(timeslot_id, schedule_id) ==
    FormatInt(timeslot_id) \o <<64>> \o FormatInt(schedule_id) \o <<35>> \o CALENDAR_ID_SUFFIX

\* bytes(string, "ascii"), then SHA-1, hex, lower (hexdigest is lowercase already)
hashify(string) == Sha1Hex(string)

build_timeslot_event_id(schedule_id, timeslot_id) ==
    hashify(CALENDAR_TIMESLOT_EVENT_ID(timeslot_id, schedule_id))


\* the identifiers of every timeslot of the model, derived once
event_id_table ==
    [s \in ScheduleIds, t \in Timeslots |-> build_timeslot_event_id(s, t)]

(***************************************************************************)
(* Application records.                                                    *)
(***************************************************************************)
None == "None"
EmptyDict == {}
SCHEDULE_NAME == "Office hours"

\* the row of reservation r: email, name, comment
ReservationRow(r) ==
    [email |-> "guest" \o ToString(r) \o "@example.org",
     name |-> "Guest " \o ToString(r),
     comment |-> "comment " \o ToString(r)]

\* the orders in which a queryset without ordering may yield the rows rs
QuerysetOrders(rs) ==
    {o \in [1..Cardinality(rs) -> rs] : \A i, j \in 1..Cardinality(rs) : i # j => o[i] # o[j]}

(***************************************************************************)
(* State.                                                                  *)
(***************************************************************************)
VARIABLES
    schedule,       \* [id, calendar_id, calendar_meet_data, state]
    account,        \* [linked, conferencing]: the owner's Google account
    reservations,   \* reservation -> its timeslot, 0 when the row does not exist
    calendars,      \* provider: ids of the calendars that exist
    events,         \* provider: <<calendar id, event id>> -> event
    created,        \* provider: number of calendars created so far
    pc,             \* per process: position in the running call
    op,             \* per process: the public operation running
    ts,             \* per process: the timeslot of the call, 0 when none
    local,          \* per process: local variables of the call
    calls,          \* per process: the requests sent to the provider by the call
    result,         \* per process: outcome of the call
    lastAccepted,   \* timeslot -> the last write the provider accepted for it
    lastReached,    \* timeslot -> the last write request that reached the provider
    addressed       \* timeslot -> event ids its requests were addressed to

vars == <<schedule, account, reservations, calendars, events, created, pc, op, ts,
          local, calls, result, lastAccepted, lastReached, addressed>>

appVars == <<schedule, account, reservations>>
providerVars == <<calendars, events, created>>
ghostVars == <<lastAccepted, lastReached, addressed>>

NoBody ==
    [summary |-> None, location |-> None, conferenceData |-> EmptyDict,
     attendees |-> <<>>, reminders |-> <<>>, id |-> None]
NoLocal ==
    [calendar_id |-> None, event_id |-> None, event_body |-> NoBody,
     read |-> <<>>, conf_data |-> EmptyDict, event |-> NoBody]
NoValue == [conf_data |-> EmptyDict, calendar_id |-> None]
NoResult == [kind |-> "none", status |-> 0, value |-> NoValue]
NoWrite == [proc |-> 0, kind |-> "none"]

Ok(v) == [kind |-> "ok", status |-> 0, value |-> v]
Raised(st) == [kind |-> "raised", status |-> st, value |-> NoValue]

\* timeslot.reservation_set
reservation_set(t) == {r \in Reservations : reservations[r] = t}

(***************************************************************************)
(* The provider.                                                           *)
(***************************************************************************)
\* the code tells 404 and 410 from the other error statuses and nothing else:
\* 500 stands for every status that is no success, not 404, 410 or 409
OtherErrors == {500}

EventExists(cal, eid) == <<cal, eid>> \in DOMAIN events
PutEvent(cal, eid, ev) == (<<cal, eid>> :> ev) @@ events
DropEvent(cal, eid) == [k \in (DOMAIN events) \ {<<cal, eid>>} |-> events[k]]

\* statuses the provider may answer to a patch, an insert, a delete
PatchResponses(cal, eid) ==
    IF EventExists(cal, eid) THEN {200} \cup OtherErrors ELSE {404} \cup OtherErrors
InsertResponses(cal, eid) ==
    IF EventExists(cal, eid) THEN {409} \cup OtherErrors ELSE {200} \cup OtherErrors
DeleteResponses(cal, eid) ==
    IF EventExists(cal, eid) THEN {204} \cup OtherErrors ELSE {404, 410} \cup OtherErrors

Success(st) == st \in {200, 204}

\* googleapiclient raises HttpError for every status that is not a success
IsHttpError(st) == ~Success(st)

\* events.patch changes the fields the body carries and keeps the others
Patched(old, body) ==
    [f \in (DOMAIN old) \cup (DOMAIN body) |-> IF f \in DOMAIN body THEN body[f] ELSE old[f]]

\* a request as it is logged: what was sent, what the provider answered
Logged(req, st, id) == [req |-> req, status |-> st, response_id |-> id]

(***************************************************************************)
(* Helpers of the call frames.                                             *)
(***************************************************************************)
\* build_calendar_client: SocialToken.objects.get / SocialApp.objects.get
\* raise when the owner has no linked account
build_calendar_client_ok == account.linked

ConfigError == 0 - 1

Enter(p, name, t, next, loc) ==
    /\ op' = [op EXCEPT ![p] = name]
    /\ ts' = [ts EXCEPT ![p] = t]
    /\ calls' = [calls EXCEPT ![p] = <<>>]
    /\ IF build_calendar_client_ok
       THEN /\ pc' = [pc EXCEPT ![p] = next]
            /\ local' = [local EXCEPT ![p] = loc]
            /\ result' = [result EXCEPT ![p] = NoResult]
       ELSE /\ pc' = [pc EXCEPT ![p] = "done"]
            /\ local' = [local EXCEPT ![p] = NoLocal]
            /\ result' = [result EXCEPT ![p] = Raised(ConfigError)]

Finish(p, res) ==
    /\ pc' = [pc EXCEPT ![p] = "done"]
    /\ result' = [result EXCEPT ![p] = res]

Send(p, req, st, id) == calls' = [calls EXCEPT ![p] = Append(@, Logged(req, st, id))]

\* bookkeeping of the writes addressed to the event of timeslot t
NoteWrite(p, t, kind, eid, st) ==
    /\ lastReached' = [lastReached EXCEPT ![t] = [proc |-> p, kind |-> kind]]
    /\ lastAccepted' = IF Success(st)
                       THEN [lastAccepted EXCEPT ![t] = [proc |-> p, kind |-> kind]]
                       ELSE lastAccepted
    /\ addressed' = [addressed EXCEPT ![t] = @ \cup {eid}]

(***************************************************************************)
(* update_timeslot_event and delete_timeslot_event.                        *)
(***************************************************************************)
\* mutant: the empty timeslot is not recognised
HasNoReservations_never(count) == count < 0

\* timeslot.reservation_set.count() == 0
HasNoReservations(count) == count = 0

\* mutant: only the first reservation becomes an attendee
attendees_first_only(rows) ==
    [i \in 1..(IF Len(rows) > 1 THEN 1 ELSE Len(rows)) |->
        [email |-> rows[i].email, displayName |-> rows[i].name, comment |-> rows[i].comment]]

\* the attendees list of the event body, from the rows of reservation_set.all()
attendees(rows) ==
    [i \in 1..Len(rows) |->
        [email |-> rows[i].email, displayName |-> rows[i].name, comment |-> rows[i].comment]]

\* the rows of reservation_set.all(), in the order the queryset yields them
reservation_rows(order) == [i \in 1..Len(order) |-> ReservationRow(order[i])]

\* the event body; start and end, which no request depends on, are left out
event_body(name, conf_data, rows, event_id) ==
    [summary |-> "Ratatoskr: " \o name,
     location |-> "Atop Yggdrasil",
     conferenceData |-> conf_data,
     attendees |-> attendees(rows),
     reminders |-> <<60 * 24 * 2, 60 * 24, 10>>,
     id |-> event_id]

patch_request(calendar_id, event_id, body) ==
    [api |-> "events.patch", calendarId |-> calendar_id, eventId |-> event_id, body |-> body]

\* mutant: the fallback insert sends the body without its attendees
insert_request_no_attendees(calendar_id, body) ==
    [api |-> "events.insert", calendarId |-> calendar_id, eventId |-> None,
     body |-> [body EXCEPT !.attendees = <<>>]]

insert_request(calendar_id, body) ==
    [api |-> "events.insert", calendarId |-> calendar_id, eventId |-> None, body |-> body]

delete_request(calendar_id, event_id) ==
    [api |-> "events.delete", calendarId |-> calendar_id, eventId |-> event_id, body |-> NoBody]

\* mutant: no error of the patch is caught
CatchesPatchError_never(st) == FALSE

\* except HttpError: every error status of the patch is caught
CatchesPatchError(st) == IsHttpError(st)

\* mutant: only 404 is swallowed
DeleteReraises_gone_too(st) == st \notin {404}

\* if e.status_code not in [404, 410]: raise e
DeleteReraises(st) == st \notin {404, 410}

\* locals of delete_timeslot_event
DeleteLocals(t) ==
    [NoLocal EXCEPT !.calendar_id = schedule.calendar_id,
                    !.event_id = event_id_table[schedule.id, t]]

\* update_timeslot_event, lines 107-113: the client, the count, the empty case
UpdateStart(p, t) ==
    /\ pc[p] = "idle"
    /\ schedule.state = "active"
    /\ LET count == Cardinality(reservation_set(t))
       IN  IF HasNoReservations(count)
           THEN Enter(p, "update_timeslot_event", t, "dte_delete", DeleteLocals(t))
           ELSE Enter(p, "update_timeslot_event", t, "ute_build", NoLocal)
    /\ UNCHANGED <<appVars, providerVars, ghostVars>>

\* lines 115-163: the event body
UpdateBuild(p) ==
    /\ pc[p] = "ute_build"
    /\ \E order \in QuerysetOrders(reservation_set(ts[p])) :
          LET event_id == event_id_table[schedule.id, ts[p]]
          IN  local' = [local EXCEPT ![p] =
                           [@ EXCEPT !.calendar_id = schedule.calendar_id,
                                     !.event_id = event_id,
                                     !.conf_data = schedule.calendar_meet_data,
                                     !.read = order,
                                     !.event_body = event_body(SCHEDULE_NAME,
                                                               schedule.calendar_meet_data,
                                                               reservation_rows(order),
                                                               event_id)]]
    /\ pc' = [pc EXCEPT ![p] = "ute_patch"]
    /\ UNCHANGED <<appVars, providerVars, ghostVars, op, ts, calls, result>>

\* lines 164-168: the patch
UpdatePatch(p) ==
    /\ pc[p] = "ute_patch"
    /\ LET req == patch_request(local[p].calendar_id, local[p].event_id, local[p].event_body)
       IN  \E st \in PatchResponses(req.calendarId, req.eventId) :
              /\ Send(p, req, st, req.eventId)
              /\ NoteWrite(p, ts[p], "put", req.eventId, st)
              /\ IF Success(st)
                 THEN /\ events' = PutEvent(req.calendarId, req.eventId,
                                            Patched(events[<<req.calendarId, req.eventId>>],
                                                    req.body))
                      /\ Finish(p, Ok(NoValue))
                 ELSE /\ events' = events
                      /\ IF CatchesPatchError(st)
                         THEN /\ pc' = [pc EXCEPT ![p] = "ute_insert"]
                              /\ result' = result
                         ELSE Finish(p, Raised(st))
    /\ UNCHANGED <<appVars, calendars, created, op, ts, local>>

\* line 169: the insert of the except branch
UpdateInsert(p) ==
    /\ pc[p] = "ute_insert"
    /\ LET req == insert_request(local[p].calendar_id, local[p].event_body)
       IN  \E st \in InsertResponses(req.calendarId, req.body.id) :
              /\ Send(p, req, st, req.body.id)
              /\ NoteWrite(p, ts[p], "put", req.body.id, st)
              /\ IF Success(st)
                 THEN /\ events' = PutEvent(req.calendarId, req.body.id, req.body)
                      /\ Finish(p, Ok(NoValue))
                 ELSE /\ events' = events
                      /\ Finish(p, Raised(st))
    /\ UNCHANGED <<appVars, calendars, created, op, ts, local>>

\* delete_timeslot_event, lines 173-175: the client and the event id
DeleteStart(p, t) ==
    /\ pc[p] = "idle"
    /\ schedule.state = "active"
    /\ Enter(p, "delete_timeslot_event", t, "dte_delete", DeleteLocals(t))
    /\ UNCHANGED <<appVars, providerVars, ghostVars>>

\* lines 176-183: the delete, called directly or from update_timeslot_event
DeleteExecute(p) ==
    /\ pc[p] = "dte_delete"
    /\ LET req == delete_request(local[p].calendar_id, local[p].event_id)
       IN  \E st \in DeleteResponses(req.calendarId, req.eventId) :
              /\ Send(p, req, st, req.eventId)
              /\ NoteWrite(p, ts[p], "delete", req.eventId, st)
              /\ events' = IF Success(st) THEN DropEvent(req.calendarId, req.eventId)
                           ELSE events
              /\ IF IsHttpError(st) /\ DeleteReraises(st)
                 THEN Finish(p, Raised(st))
                 ELSE Finish(p, Ok(NoValue))
    /\ UNCHANGED <<appVars, calendars, created, op, ts, local>>

(***************************************************************************)
(* create_calendar_for_schedule and delete_calendar_for_schedule.          *)
(***************************************************************************)
calendar_body(name) ==
    [summary |-> "Ratatoskr: " \o name,
     description |-> "Calendar generated by Ratatoskr. Please do not delete.",
     timeZone |-> "UTC",
     conferenceProperties |-> {<<"allowedConferenceSolutionTypes", "hangoutsMeet">>}]

\* the placeholder event; it carries no id, the provider assigns one
dummy_event_body ==
    [summary |-> "Ratatoskr Dummy Event",
     location |-> "Yggdrasil",
     conferenceData |-> {<<"createRequest", "requestId">>},
     attendees |-> <<>>,
     reminders |-> <<>>]

\* what the provider answers to the insert of the placeholder event
IssuedConferenceData == {<<"conferenceId", "meet">>, <<"conferenceSolution", "hangoutsMeet">>}
ProviderConferenceData == IF account.conferencing THEN IssuedConferenceData ELSE EmptyDict
ProviderCalendarId == "calendar" \o ToString(created + 1)
ProviderEventId == "event" \o ToString(created)

\* lines 93-95: conf_data = {}
conf_data_of(event) == EmptyDict

\* mutant: the calendar id stored in the schedule is returned
create_return_stored(conf_data, calendar_id) ==
    [conf_data |-> conf_data, calendar_id |-> schedule.calendar_id]

\* line 99: return conf_data, calendar_id
create_return(conf_data, calendar_id) == [conf_data |-> conf_data, calendar_id |-> calendar_id]

\* lines 54-87: the client and the two bodies
CreateStart(p) ==
    /\ pc[p] = "idle"
    /\ schedule.state = "new"
    /\ created < MaxCreates
    /\ Enter(p, "create_calendar_for_schedule", 0, "cc_calendar", NoLocal)
    /\ UNCHANGED <<appVars, providerVars, ghostVars>>

\* lines 88-89: the calendar
CalendarInsert(p) ==
    /\ pc[p] = "cc_calendar"
    /\ LET req == [api |-> "calendars.insert", calendarId |-> None, eventId |-> None,
                   body |-> calendar_body(SCHEDULE_NAME)]
       IN  \E st \in {200} \cup OtherErrors :
              IF Success(st)
              THEN /\ Send(p, req, st, ProviderCalendarId)
                   /\ calendars' = calendars \cup {ProviderCalendarId}
                   /\ created' = created + 1
                   /\ local' = [local EXCEPT ![p].calendar_id = ProviderCalendarId]
                   /\ pc' = [pc EXCEPT ![p] = "cc_event"]
                   /\ result' = result
              ELSE /\ Send(p, req, st, None)
                   /\ Finish(p, Raised(st))
                   /\ UNCHANGED <<calendars, created, local>>
    /\ UNCHANGED <<appVars, events, ghostVars, op, ts>>

\* lines 91-95: the placeholder event and the conference data
DummyInsert(p) ==
    /\ pc[p] = "cc_event"
    /\ LET req == insert_request(local[p].calendar_id, dummy_event_body)
           event == Patched(req.body, [id |-> ProviderEventId,
                                       conferenceData |-> ProviderConferenceData])
       IN  \E st \in InsertResponses(req.calendarId, ProviderEventId) :
              IF Success(st)
              THEN /\ Send(p, req, st, event.id)
                   /\ events' = PutEvent(req.calendarId, event.id, event)
                   /\ local' = [local EXCEPT ![p].event = event,
                                             ![p].conf_data = conf_data_of(event)]
                   /\ pc' = [pc EXCEPT ![p] = "cc_delete"]
                   /\ result' = result
              ELSE /\ Send(p, req, st, None)
                   /\ Finish(p, Raised(st))
                   /\ UNCHANGED <<events, local>>
    /\ UNCHANGED <<appVars, calendars, created, ghostVars, op, ts>>

\* lines 97-99: the delete of the placeholder event and the return
DummyDelete(p) ==
    /\ pc[p] = "cc_delete"
    /\ LET req == delete_request(local[p].calendar_id, local[p].event.id)
       IN  \E st \in DeleteResponses(req.calendarId, req.eventId) :
              /\ Send(p, req, st, req.eventId)
              /\ IF Success(st)
                 THEN /\ events' = DropEvent(req.calendarId, req.eventId)
                      /\ Finish(p, Ok(create_return(local[p].conf_data, local[p].calendar_id)))
                 ELSE /\ events' = events
                      /\ Finish(p, Raised(st))
    /\ UNCHANGED <<appVars, calendars, created, ghostVars, op, ts, local>>

\* line 102: the client
DeleteCalendarStart(p) ==
    /\ pc[p] = "idle"
    /\ schedule.state = "active"
    /\ Enter(p, "delete_calendar_for_schedule", 0, "dc_request",
             [NoLocal EXCEPT !.calendar_id = schedule.calendar_id])
    /\ UNCHANGED <<appVars, providerVars, ghostVars>>

\* line 103: the request is built and never executed, nothing reaches the provider
DeleteCalendarRequest(p) ==
    /\ pc[p] = "dc_request"
    /\ Finish(p, Ok(NoValue))
    /\ UNCHANGED <<appVars, providerVars, ghostVars, op, ts, local, calls>>

(***************************************************************************)
(* The application around the adapter.                                     *)
(***************************************************************************)
NoWrites == [t \in Timeslots |-> NoWrite]

\* the caller takes the outcome: it saves what create_calendar_for_schedule
\* returned in the schedule, and drops the schedule after its calendar
Persist(p) ==
    IF result[p].kind = "ok" /\ op[p] = "create_calendar_for_schedule"
    THEN /\ schedule' = [schedule EXCEPT !.calendar_id = result[p].value.calendar_id,
                                         !.calendar_meet_data = result[p].value.conf_data,
                                         !.state = "active"]
         /\ reservations' = reservations
    ELSE IF result[p].kind = "ok" /\ op[p] = "delete_calendar_for_schedule"
    THEN /\ schedule' = [schedule EXCEPT !.state = "deleted"]
         /\ reservations' = [r \in Reservations |-> 0]
    ELSE UNCHANGED <<schedule, reservations>>

Return(p) ==
    /\ pc[p] = "done"
    /\ Persist(p)
    /\ pc' = [pc EXCEPT ![p] = "idle"]
    /\ op' = [op EXCEPT ![p] = "none"]
    /\ ts' = [ts EXCEPT ![p] = 0]
    /\ local' = [local EXCEPT ![p] = NoLocal]
    /\ calls' = [calls EXCEPT ![p] = <<>>]
    /\ result' = [result EXCEPT ![p] = NoResult]
    /\ lastAccepted' = NoWrites
    /\ lastReached' = NoWrites
    /\ UNCHANGED <<account, providerVars, addressed>>

\* two calls that ran side by side have both returned
ReturnBoth ==
    /\ \A p \in Procs : pc[p] = "done"
    /\ pc' = [p \in Procs |-> "idle"]
    /\ op' = [p \in Procs |-> "none"]
    /\ ts' = [p \in Procs |-> 0]
    /\ local' = [p \in Procs |-> NoLocal]
    /\ calls' = [p \in Procs |-> <<>>]
    /\ result' = [p \in Procs |-> NoResult]
    /\ lastAccepted' = NoWrites
    /\ lastReached' = NoWrites
    /\ UNCHANGED <<appVars, providerVars, addressed>>

AddReservation(r, t) ==
    /\ schedule.state = "active"
    /\ reservations[r] = 0
    /\ reservations' = [reservations EXCEPT ![r] = t]
    /\ UNCHANGED <<schedule, account, providerVars, ghostVars, pc, op, ts, local, calls, result>>

RemoveReservation(r) ==
    /\ reservations[r] # 0
    /\ reservations' = [reservations EXCEPT ![r] = 0]
    /\ UNCHANGED <<schedule, account, providerVars, ghostVars, pc, op, ts, local, calls, result>>

(***************************************************************************)
(* Specifications.                                                         *)
(***************************************************************************)
InitCalls ==
    /\ pc = [p \in Procs |-> "idle"]
    /\ op = [p \in Procs |-> "none"]
    /\ ts = [p \in Procs |-> 0]
    /\ local = [p \in Procs |-> NoLocal]
    /\ calls = [p \in Procs |-> <<>>]
    /\ result = [p \in Procs |-> NoResult]
    /\ lastAccepted = NoWrites
    /\ lastReached = NoWrites
    /\ addressed = [t \in Timeslots |-> {}]
    /\ reservations = [r \in Reservations |-> 0]
    /\ events = [k \in {} |-> NoBody]

\* a schedule was just saved; its calendar is still to be created
Init ==
    /\ \E s \in ScheduleIds :
          schedule = [id |-> s, calendar_id |-> None, calendar_meet_data |-> EmptyDict,
                      state |-> "new"]
    /\ account \in {[linked |-> TRUE, conferencing |-> TRUE],
                    [linked |-> TRUE, conferencing |-> FALSE],
                    [linked |-> FALSE, conferencing |-> FALSE]}
    /\ calendars = {}
    /\ created = 0
    /\ InitCalls

AllIdle == \A p \in Procs : pc[p] = "idle"

\* the application is single-threaded: one call at a time, rows change between calls
Next ==
    \/ CreateStart(1)
    \/ CalendarInsert(1)
    \/ DummyInsert(1)
    \/ DummyDelete(1)
    \/ DeleteCalendarStart(1)
    \/ DeleteCalendarRequest(1)
    \/ \E t \in Timeslots : UpdateStart(1, t)
    \/ UpdateBuild(1)
    \/ UpdatePatch(1)
    \/ UpdateInsert(1)
    \/ \E t \in Timeslots : DeleteStart(1, t)
    \/ DeleteExecute(1)
    \/ Return(1)
    \/ \E r \in Reservations, t \in Timeslots : AllIdle /\ AddReservation(r, t)
    \/ \E r \in Reservations : AllIdle /\ RemoveReservation(r)

Spec == Init /\ [][Next]_vars

\* the first schedule of a linked owner, after its calendar was created
InitConc ==
    /\ schedule = [id |-> 1, calendar_id |-> "calendar1",
                   calendar_meet_data |-> EmptyDict, state |-> "active"]
    /\ account = [linked |-> TRUE, conferencing |-> FALSE]
    /\ calendars = {"calendar1"}
    /\ created = 1
    /\ InitCalls

\* two request handlers synchronise the first timeslot side by side while
\* its reservations change
NextConc ==
    \/ \E p \in Procs : UpdateStart(p, 1)
    \/ \E p \in Procs : UpdateBuild(p)
    \/ \E p \in Procs : UpdatePatch(p)
    \/ \E p \in Procs : UpdateInsert(p)
    \/ \E p \in Procs : DeleteExecute(p)
    \/ ReturnBoth
    \/ \E r \in Reservations : AddReservation(r, 1)
    \/ \E r \in Reservations : RemoveReservation(r)

SpecConc == InitConc /\ [][NextConc]_vars

(***************************************************************************)
(* Properties.                                                             *)
(***************************************************************************)
\* SHA-1 digests of "{timeslot_id}@{schedule_id}#ratatoskr.techhigh.us", as
\* <<schedule id, timeslot id, digest>>
SHA1_VECTORS ==
    {<<1, 1, "50bdd4a78bb68562a79b6d31343940f8a0fba6ba">>,
     <<1, 2, "335723cdd01a3e6d4bd477ad2aa50fbc9724926b">>,
     <<2, 1, "3f1b07adb524b5f7097c0be429d444fc3ab19f25">>,
     <<2, 2, "86dfef83fec21151c1ffb6bf567a1d9557d02709">>}

\* the identifier the event of timeslot t is expected under
DerivedId(t) == (CHOOSE v \in SHA1_VECTORS : v[1] = schedule.id /\ v[2] = t)[3]

DerivedKey(t) == <<schedule.calendar_id, DerivedId(t)>>

\* the attendees expected for the reservations read in the order given
ExpectedAttendees(order) ==
        [i \in 1..Len(order) |->
            [email |-> ReservationRow(order[i]).email,
             displayName |-> ReservationRow(order[i]).name,
             comment |-> ReservationRow(order[i]).comment]]

Api(p, i) == calls[p][i].req.api
Status(p, i) == calls[p][i].status
Updating(p) == op[p] = "update_timeslot_event"
ClientBuilt(p) == result[p].status # ConfigError

\* the event id a logged request addresses
AddressedId(c) == IF c.req.api = "events.insert" THEN c.req.body.id ELSE c.req.eventId

\* C1: in update_timeslot_event a patch that fails with an error other than
\* not-found propagates that error to the caller and no insert is issued.
C1_OtherPatchErrorPropagates ==
    \A p \in Procs :
        (/\ Updating(p)
         /\ Len(calls[p]) >= 1
         /\ Api(p, 1) = "events.patch"
         /\ Status(p, 1) \notin {200, 404})
        => /\ \A i \in 1..Len(calls[p]) : Api(p, i) # "events.insert"
           /\ pc[p] = "done"
           /\ result[p] = Raised(Status(p, 1))

\* C2: for a timeslot with at least one reservation update_timeslot_event
\* first sends exactly one patch at (schedule calendar id, derived id); after
\* a successful patch nothing else is sent; after a 404 exactly one insert
\* follows, into the same calendar, with the same body, whose id is the
\* derived id.
C2_PatchThenInsertOnNotFound ==
    \A p \in Procs :
        (Updating(p) /\ reservation_set(ts[p]) # {})
        => LET c == calls[p]
           IN  /\ Len(c) <= 2
               /\ (pc[p] \in {"ute_insert", "done"} /\ ClientBuilt(p)) => Len(c) >= 1
               /\ Len(c) >= 1 =>
                     /\ c[1].req.api = "events.patch"
                     /\ c[1].req.calendarId = schedule.calendar_id
                     /\ c[1].req.eventId = DerivedId(ts[p])
               /\ Len(c) = 2 => c[2].req.api # "events.patch"
               /\ (Len(c) >= 1 /\ Success(c[1].status)) => (Len(c) = 1 /\ pc[p] = "done")
               /\ (Len(c) >= 1 /\ c[1].status = 404) =>
                     IF pc[p] = "done"
                     THEN /\ Len(c) = 2
                          /\ c[2].req.api = "events.insert"
                          /\ c[2].req.calendarId = c[1].req.calendarId
                          /\ c[2].req.body = c[1].req.body
                          /\ c[2].req.body.id = DerivedId(ts[p])
                     ELSE pc[p] = "ute_insert" /\ Len(c) = 1

\* a patch was answered 404 and the insert that followed was accepted
C2_Witness ==
    \E p \in Procs :
        /\ Updating(p) /\ pc[p] = "done" /\ reservation_set(ts[p]) # {}
        /\ Len(calls[p]) = 2
        /\ Status(p, 1) = 404
        /\ Api(p, 2) = "events.insert" /\ Status(p, 2) = 200

\* C3: for a timeslot without reservations update_timeslot_event sends one
\* event delete at the derived id and returns; it sends no patch and no
\* insert, whatever the provider answers to the delete.
C3_EmptyTimeslotOnlyDeletes ==
    \A p \in Procs :
        (Updating(p) /\ reservation_set(ts[p]) = {})
        => /\ pc[p] \in {"dte_delete", "done"}
           /\ Len(calls[p]) <= 1
           /\ \A i \in 1..Len(calls[p]) :
                 /\ Api(p, i) = "events.delete"
                 /\ calls[p][i].req.calendarId = schedule.calendar_id
                 /\ calls[p][i].req.eventId = DerivedId(ts[p])
           /\ (pc[p] = "done" /\ ClientBuilt(p)) => Len(calls[p]) = 1

\* the delete of an empty timeslot's event was answered 500
C3_Witness ==
    \E p \in Procs :
        /\ Updating(p) /\ pc[p] = "done" /\ reservation_set(ts[p]) = {}
        /\ Len(calls[p]) = 1
        /\ Api(p, 1) = "events.delete" /\ Status(p, 1) = 500
        /\ result[p] = Raised(500)

\* C4: delete_timeslot_event returns normally when the provider answers the
\* delete with 404 or 410 (or accepts it), and raises the error when the
\* provider answers with any other error status.
C4_DeleteIdempotent ==
    \A p \in Procs :
        (/\ pc[p] = "done"
         /\ op[p] \in {"delete_timeslot_event", "update_timeslot_event"}
         /\ Len(calls[p]) >= 1
         /\ Api(p, Len(calls[p])) = "events.delete")
        => LET st == Status(p, Len(calls[p]))
           IN  /\ st \in {204, 404, 410} => result[p].kind = "ok"
               /\ st \notin {204, 404, 410} => result[p] = Raised(st)

\* the event was absent, the provider answered 410 and the call returned
C4_Witness ==
    \E p \in Procs :
        /\ pc[p] = "done" /\ op[p] = "delete_timeslot_event"
        /\ Len(calls[p]) = 1 /\ Status(p, 1) = 410
        /\ result[p].kind = "ok"
        /\ DerivedKey(ts[p]) \notin DOMAIN events

\* C5: after delete_calendar_for_schedule returns, a calendar delete request
\* for schedule.calendar_id has been sent and the calendar no longer exists
\* at the provider.
C5_CalendarDeleted ==
    \A p \in Procs :
        (/\ pc[p] = "done"
         /\ op[p] = "delete_calendar_for_schedule"
         /\ result[p].kind = "ok")
        => /\ \E i \in 1..Len(calls[p]) :
                 /\ Api(p, i) = "calendars.delete"
                 /\ calls[p][i].req.calendarId = schedule.calendar_id
           /\ schedule.calendar_id \notin calendars

\* C6: a create_calendar_for_schedule call that returns normally has sent
\* three writes in this order: a calendar insert, the insert of the
\* placeholder event into that calendar, the delete of that event; it returns
\* the calendar id the provider assigned and the placeholder event is gone.
C6_CreateSendsThreeWrites ==
    \A p \in Procs :
        (/\ pc[p] = "done"
         /\ op[p] = "create_calendar_for_schedule"
         /\ result[p].kind = "ok")
        => LET c == calls[p]
           IN  /\ Len(c) = 3
               /\ c[1].req.api = "calendars.insert" /\ Success(c[1].status)
               /\ c[1].response_id \in calendars
               /\ c[2].req.api = "events.insert" /\ Success(c[2].status)
               /\ c[2].req.calendarId = c[1].response_id
               /\ c[2].req.body.summary = "Ratatoskr Dummy Event"
               /\ c[3].req.api = "events.delete" /\ Success(c[3].status)
               /\ c[3].req.calendarId = c[1].response_id
               /\ c[3].req.eventId = c[2].response_id
               /\ result[p].value.calendar_id = c[1].response_id
               /\ <<c[1].response_id, c[2].response_id>> \notin DOMAIN events

\* the calendar was created for an owner whose account can hold conferences
C6_Witness ==
    \E p \in Procs :
        /\ pc[p] = "done" /\ op[p] = "create_calendar_for_schedule"
        /\ result[p].kind = "ok"
        /\ Len(calls[p]) = 3
        /\ account.conferencing
        /\ result[p].value.calendar_id = "calendar1"
        /\ calendars = {"calendar1"}
        /\ DOMAIN events = {}

\* C7: every request for a timeslot addresses the identifier derived from
\* (schedule id, timeslot id): the eventId patched, the id of the body
\* inserted and the eventId deleted are that one identifier, call after call,
\* and the two timeslots are addressed by different identifiers.
C7_DerivedIdStableAndDistinct ==
    /\ \A p \in Procs :
          ts[p] # 0 => \A i \in 1..Len(calls[p]) : AddressedId(calls[p][i]) = DerivedId(ts[p])
    /\ \A t \in Timeslots : addressed[t] \subseteq {DerivedId(t)}
    /\ \A t1, t2 \in Timeslots : t1 # t2 => addressed[t1] \cap addressed[t2] = {}

\* both timeslots were addressed, the current one by a patch and an insert
C7_Witness ==
    /\ \A t \in Timeslots : addressed[t] # {}
    /\ \E p \in Procs :
          /\ Updating(p) /\ pc[p] = "done"
          /\ Len(calls[p]) = 2
          /\ Api(p, 1) = "events.patch" /\ Api(p, 2) = "events.insert"

BothUpdatesDone ==
    /\ \A p \in Procs : pc[p] = "done" /\ Updating(p)
    /\ \A p, q \in Procs : ts[p] = ts[q]

\* the provider answered no request of the running calls with a server error
ProviderHealthy == \A p \in Procs : \A i \in 1..Len(calls[p]) : Status(p, i) \notin OtherErrors

\* the provider holds for timeslot t what the write w of process w.proc carried
Holds(t, w) ==
    IF w.kind = "delete"
    THEN DerivedKey(t) \notin DOMAIN events
    ELSE /\ DerivedKey(t) \in DOMAIN events
         /\ events[DerivedKey(t)] = local[w.proc].event_body
         /\ events[DerivedKey(t)].attendees = ExpectedAttendees(local[w.proc].read)

\* C8 as stated: after two interleaved update_timeslot_event calls for one
\* timeslot the provider holds what the write request that reached it last
\* carried (here even with a provider that answers no server error).
C8_LastRequestWins ==
    (BothUpdatesDone /\ ProviderHealthy)
    => \A t \in Timeslots :
          (t = ts[1] /\ lastReached[t].kind # "none") => Holds(t, lastReached[t])

\* C8 amended: after two interleaved update_timeslot_event calls for one
\* timeslot the provider holds what the last write request it accepted
\* among the two calls carried: no event when that request was a delete,
\* otherwise the event of that request's body.
C8_LastAcceptedWriteWins ==
    BothUpdatesDone
    => \A t \in Timeslots :
          (t = ts[1] /\ lastAccepted[t].kind # "none") => Holds(t, lastAccepted[t])

\* both calls inserted after a 404; the later insert was refused with 409 and
\* the provider holds the event of the earlier one
C8_Witness ==
    /\ BothUpdatesDone
    /\ \E p, q \in Procs :
          /\ p # q
          /\ lastAccepted[ts[p]] = [proc |-> p, kind |-> "put"]
          /\ lastReached[ts[p]] = [proc |-> q, kind |-> "put"]
          /\ Len(calls[q]) = 2 /\ Status(q, 2) = 409
          /\ Len(calls[p]) = 2 /\ Status(p, 2) = 200
          /\ local[p].event_body # local[q].event_body
          /\ events[DerivedKey(ts[p])] = local[p].event_body

\* C9: create_calendar_for_schedule returns the conference data the provider
\* issued for the placeholder event, and an empty object only when
\* conferencing is unavailable for the account.
C9_ReturnsIssuedConferenceData ==
    \A p \in Procs :
        (/\ pc[p] = "done"
         /\ op[p] = "create_calendar_for_schedule"
         /\ result[p].kind = "ok")
        => /\ result[p].value.conf_data = local[p].event.conferenceData
           /\ result[p].value.conf_data = EmptyDict => ~account.conferencing

\* C10: when update_timeslot_event has returned normally the provider
\* mirrors the timeslot: no event under the derived id if it has no
\* reservation, otherwise one event there whose attendees are the
\* reservations read by the call.
C10_ProviderMirrorsTimeslot ==
    \A p \in Procs :
        (pc[p] = "done" /\ Updating(p) /\ result[p].kind = "ok")
        => LET t == ts[p]
           IN  IF reservation_set(t) = {}
               THEN DerivedKey(t) \notin DOMAIN events
               ELSE /\ DerivedKey(t) \in DOMAIN events
                    /\ {local[p].read[i] : i \in 1..Len(local[p].read)} = reservation_set(t)
                    /\ Len(local[p].read) = Cardinality(reservation_set(t))
                    /\ events[DerivedKey(t)].id = DerivedId(t)
                    /\ events[DerivedKey(t)].attendees = ExpectedAttendees(local[p].read)

\* an event that existed was patched to list both reservations, read in an
\* order that is not that of their keys
C10_Witness ==
    \E p \in Procs :
        /\ pc[p] = "done" /\ Updating(p) /\ result[p].kind = "ok"
        /\ Cardinality(reservation_set(ts[p])) = 2
        /\ Len(calls[p]) = 1 /\ Status(p, 1) = 200
        /\ local[p].read = <<2, 1>>
        /\ Len(events[DerivedKey(ts[p])].attendees) = 2
====
